---------------------------- MODULE Spec2Model ----------------------------
(***************************************************************************)
(* Model of ldaps_cert_chain_retriever.py: the certificate chain validator *)
(* (validate_certificate_chain), the formatter (format_certificate) and    *)
(* the retrieval path get_ldap_ssl_certificates -> main.                   *)
(*                                                                         *)
(* A certificate is abstracted to the two fields the program compares,     *)
(* subject and issuer, each a distinguished name drawn from Names.  Its    *)
(* DER encoding is the byte string <<48, subject, issuer>>, 48 being the   *)
(* tag of an ASN.1 SEQUENCE; any other byte string fails to parse.  Bytes  *)
(* are 6-bit units, so that base64 maps one unit to one character.         *)
(***************************************************************************)
EXTENDS Integers, Sequences, FiniteSets, TLC

\* Bounds of the model.
NumNames == 3
MaxChainLen == 3
NumServerNames == 2
MaxPieces == 3

Names == 1..NumNames

Certificates == [subject : Names, issuer : Names]

\* cert.public_bytes(serialization.Encoding.DER)
EncodeDER(cert) == <<48, cert.subject, cert.issuer>>

\* Byte strings that are not the encoding of any certificate.
MalformedDer == {<<>>, <<48, 1>>, <<2, 1, 1>>}

DerValues == {EncodeDER(c) : c \in Certificates} \cup MalformedDer

\* x509.load_der_x509_certificate(data, default_backend()): the parsed
\* certificate, or the ValueError the library raises, with its text.
load_der_x509_certificate(data) ==
    IF Len(data) = 0
    THEN [ok |-> FALSE, err |-> "error parsing asn1 value: ShortData"]
    ELSE IF data[1] # 48
    THEN [ok |-> FALSE, err |-> "error parsing asn1 value: UnexpectedTag"]
    ELSE IF Len(data) # 3 \/ data[2] \notin Names \/ data[3] \notin Names
    THEN [ok |-> FALSE, err |-> "error parsing asn1 value: ShortData"]
    ELSE [ok |-> TRUE, cert |-> [subject |-> data[2], issuer |-> data[3]]]

\* is_self_signed(cert)
is_self_signed(cert) == cert.issuer = cert.subject

-----------------------------------------------------------------------------
(* validate_certificate_chain, as the steps of one activation.  A frame    *)
(* holds the locals: cert_ders (the argument), certs (the list being built *)
(* by the comprehension), i (the loop index, 0-based as in the source),    *)
(* compared (the indices i at which the comparison of line 134 was made),  *)
(* and the returned tuple once pc = "done".                                *)

NoResult == [is_valid |-> FALSE, message |-> ""]

NewCall(cert_ders) ==
    [pc |-> "start", cert_ders |-> cert_ders, certs |-> <<>>, i |-> 0,
     compared |-> <<>>, result |-> NoResult]

Return(f, is_valid, message) ==
    [f EXCEPT !.pc = "done",
              !.result = [is_valid |-> is_valid, message |-> message]]

\* Mutant of ExceptHandler: the handler returns the bare text of the exception.
ExceptHandlerBareText(f, e) == Return(f, FALSE, e)

\* except Exception as e: return False, f"Error validating ...: {str(e)}"
ExceptHandler(f, e) ==
    Return(f, FALSE, "Error validating certificate chain: " \o e)

\* Mutant of CheckEmpty: the emptiness test is left out.
CheckEmptySkipped(f) == [f EXCEPT !.pc = "load"]

\* if not cert_ders: return False, "No certificates found in chain"
CheckEmpty(f) ==
    IF f.cert_ders = <<>>
    THEN Return(f, FALSE, "No certificates found in chain")
    ELSE [f EXCEPT !.pc = "load"]

\* One element of the comprehension certs = [load_der(cert) for cert in cert_ders]
LoadCert(f) ==
    LET k == Len(f.certs) + 1
        r == load_der_x509_certificate(f.cert_ders[k])
    IN  IF ~r.ok
        THEN ExceptHandler(f, r.err)
        ELSE [f EXCEPT !.certs = Append(@, r.cert),
                       !.pc = IF k = Len(f.cert_ders) THEN "single" ELSE "load"]

\* Mutant of CheckSingle: the single-certificate rule is left out.
CheckSingleSkipped(f) == [f EXCEPT !.pc = "loop", !.i = 0]

\* if len(certs) == 1 and is_self_signed(certs[0]): return True, ...
CheckSingle(f) ==
    IF Len(f.certs) = 1 /\ is_self_signed(f.certs[1])
    THEN Return(f, TRUE, "Valid self-signed certificate")
    ELSE [f EXCEPT !.pc = "loop", !.i = 0]

\* Mutant of ComparePair: the position reported is that of the next
\* certificate.
ComparePairNextPosition(f) ==
    IF f.i >= Len(f.certs) - 1
    THEN [f EXCEPT !.pc = "last"]
    ELSE LET cert == f.certs[f.i + 1]
             issuer == f.certs[f.i + 2]
             g == [f EXCEPT !.compared = Append(@, f.i)]
         IN  IF cert.issuer # issuer.subject
             THEN IF is_self_signed(cert)
                  THEN Return(g, TRUE,
                         "Chain contains self-signed certificate at position "
                           \o ToString(f.i + 1))
                  ELSE Return(g, FALSE,
                         "Certificate chain broken at position "
                           \o ToString(f.i + 1)
                           \o ": issuer does not match next certificate's subject")
             ELSE [g EXCEPT !.i = f.i + 1]

\* Mutant of ComparePair: a self-signed certificate that does not link is
\* passed over and the loop goes on.
ComparePairNoEscape(f) ==
    IF f.i >= Len(f.certs) - 1
    THEN [f EXCEPT !.pc = "last"]
    ELSE LET cert == f.certs[f.i + 1]
             issuer == f.certs[f.i + 2]
             g == [f EXCEPT !.compared = Append(@, f.i)]
         IN  IF cert.issuer # issuer.subject /\ ~is_self_signed(cert)
             THEN Return(g, FALSE,
                    "Certificate chain broken at position " \o ToString(f.i)
                      \o ": issuer does not match next certificate's subject")
             ELSE [g EXCEPT !.i = f.i + 1]

\* One iteration of for i in range(len(certs) - 1), or the loop's exit.
ComparePair(f) ==
    IF f.i >= Len(f.certs) - 1
    THEN [f EXCEPT !.pc = "last"]
    ELSE LET cert == f.certs[f.i + 1]
             issuer == f.certs[f.i + 2]
             g == [f EXCEPT !.compared = Append(@, f.i)]
         IN  IF cert.issuer # issuer.subject
             THEN IF is_self_signed(cert)
                  THEN Return(g, TRUE,
                         "Chain contains self-signed certificate at position "
                           \o ToString(f.i))
                  ELSE Return(g, FALSE,
                         "Certificate chain broken at position " \o ToString(f.i)
                           \o ": issuer does not match next certificate's subject")
             ELSE [g EXCEPT !.i = f.i + 1]

\* Mutant of CheckLast: the first certificate is tested, not the last.
CheckLastTestsFirst(f) ==
    IF is_self_signed(f.certs[1])
    THEN Return(f, TRUE,
           "Certificate chain is valid and ends with self-signed root CA")
    ELSE Return(f, TRUE, "Certificate chain is valid and properly ordered")

\* if is_self_signed(certs[-1]): ... else ...
CheckLast(f) ==
    IF is_self_signed(f.certs[Len(f.certs)])
    THEN Return(f, TRUE,
           "Certificate chain is valid and ends with self-signed root CA")
    ELSE Return(f, TRUE, "Certificate chain is valid and properly ordered")

\* The step the activation takes from its current position.
ValidateStep(f) ==
    CASE f.pc = "start"  -> CheckEmpty(f)
      [] f.pc = "load"   -> LoadCert(f)
      [] f.pc = "single" -> CheckSingle(f)
      [] f.pc = "loop"   -> ComparePair(f)
      [] f.pc = "last"   -> CheckLast(f)
      [] OTHER           -> f

RECURSIVE RunValidate(_)
RunValidate(f) == IF f.pc = "done" THEN f ELSE RunValidate(ValidateStep(f))

\* validate_certificate_chain(cert_ders) as a whole: the returned tuple.
validate_certificate_chain(cert_ders) == RunValidate(NewCall(cert_ders)).result

-----------------------------------------------------------------------------
(* Text and the PEM encoding.  A text is a sequence of chunks: "\n" is a   *)
(* line break, any other chunk is a run of characters without one.         *)

NL == "\n"
BEGIN_CERT == "-----BEGIN CERTIFICATE-----"
END_CERT == "-----END CERTIFICATE-----"

\* The base64 alphabet, indexed by 6-bit value + 1.
B64Alphabet ==
    <<"A","B","C","D","E","F","G","H","I","J","K","L","M","N","O","P",
      "Q","R","S","T","U","V","W","X","Y","Z","a","b","c","d","e","f",
      "g","h","i","j","k","l","m","n","o","p","q","r","s","t","u","v",
      "w","x","y","z","0","1","2","3","4","5","6","7","8","9","+","/">>

RECURSIVE B64Encode(_)
B64Encode(bytes) ==
    IF bytes = <<>> THEN ""
    ELSE B64Alphabet[Head(bytes) + 1] \o B64Encode(Tail(bytes))

\* The units that occur in the byte strings of the model.
ByteUnits == {2, 48} \cup Names

\* The base64 text of every byte string that fits one PEM body line.
B64LineTable ==
    [bs \in {<<a>> : a \in ByteUnits} \cup {<<a, b>> : a, b \in ByteUnits}
        |-> B64Encode(bs)]

\* base64-decode one body line: the bytes, or a failure if it is not base64.
B64DecodeLine(line) ==
    IF \E bs \in DOMAIN B64LineTable : B64LineTable[bs] = line
    THEN [ok |-> TRUE,
          bytes |-> CHOOSE bs \in DOMAIN B64LineTable : B64LineTable[bs] = line]
    ELSE [ok |-> FALSE, bytes |-> <<>>]

\* The body of a PEM block: the base64 text wrapped two units to a line.
RECURSIVE PemBodyLines(_)
PemBodyLines(bytes) ==
    IF Len(bytes) <= 2 THEN <<B64Encode(bytes)>>
    ELSE <<B64Encode(SubSeq(bytes, 1, 2))>>
           \o PemBodyLines(SubSeq(bytes, 3, Len(bytes)))

\* Every line followed by a line break.
RECURSIVE Terminated(_)
Terminated(lines) ==
    IF lines = <<>> THEN <<>>
    ELSE <<Head(lines), NL>> \o Terminated(Tail(lines))

\* cert.public_bytes(serialization.Encoding.PEM).decode('utf-8')
EncodePEM(cert) ==
    Terminated(<<BEGIN_CERT>> \o PemBodyLines(EncodeDER(cert)) \o <<END_CERT>>)

\* str.splitlines(): the lines of a text, without their line breaks; a last
\* line that is not terminated is a line too.
RECURSIVE SplitFrom(_, _, _)
SplitFrom(text, line, open) ==
    IF text = <<>> THEN (IF open THEN <<line>> ELSE <<>>)
    ELSE IF Head(text) = NL THEN <<line>> \o SplitFrom(Tail(text), "", FALSE)
    ELSE SplitFrom(Tail(text), line \o Head(text), TRUE)

splitlines(text) == SplitFrom(text, "", FALSE)

\* '\n'.join(lines)
RECURSIVE join(_)
join(lines) ==
    IF lines = <<>> THEN <<>>
    ELSE IF Len(lines) = 1 THEN <<Head(lines)>>
    ELSE <<Head(lines), NL>> \o join(Tail(lines))

\* The smallest index in from..Len(lines) holding `what`, or 0.
RECURSIVE IndexOf(_, _, _)
IndexOf(lines, what, from) ==
    IF from > Len(lines) THEN 0
    ELSE IF lines[from] = what THEN from
    ELSE IndexOf(lines, what, from + 1)

\* base64-decode the body lines of a block, in order.
RECURSIVE DecodeBody(_)
DecodeBody(lines) ==
    IF lines = <<>> THEN [ok |-> TRUE, bytes |-> <<>>]
    ELSE LET h == B64DecodeLine(Head(lines))
             t == DecodeBody(Tail(lines))
         IN  IF h.ok /\ t.ok
             THEN [ok |-> TRUE, bytes |-> h.bytes \o t.bytes]
             ELSE [ok |-> FALSE, bytes |-> <<>>]

\* x509.load_pem_x509_certificate(text.encode(), default_backend()): the
\* certificate of the first BEGIN..END block of the text, or the ValueError.
load_pem_x509_certificate(text) ==
    LET lines == splitlines(text)
        b == IndexOf(lines, BEGIN_CERT, 1)
        e == IF b = 0 THEN 0 ELSE IndexOf(lines, END_CERT, b + 1)
        body == IF e = 0 THEN [ok |-> FALSE, bytes |-> <<>>]
                ELSE DecodeBody(SubSeq(lines, b + 1, e - 1))
    IN  IF e = 0 \/ ~body.ok
        THEN [ok |-> FALSE, err |-> "Unable to load PEM file. MalformedFraming"]
        ELSE load_der_x509_certificate(body.bytes)

-----------------------------------------------------------------------------
(* format_certificate(cert_data, format): what the call returns, or the    *)
(* exception that leaves it.                                               *)

Returns(value) == [raised |-> FALSE, value |-> value, exc |-> ""]
Raises(text) == [raised |-> TRUE, value |-> <<>>, exc |-> text]

format_certificate(cert_data, format) ==
    LET r == load_der_x509_certificate(cert_data)
    IN  IF ~r.ok THEN Raises(r.err)
        ELSE IF format = "pem" THEN Returns(EncodePEM(r.cert))
        ELSE IF format = "der" THEN Returns(EncodeDER(r.cert))
        ELSE Raises("Unsupported format: " \o format)

-----------------------------------------------------------------------------
(* get_ldap_ssl_certificates, as the steps of one activation.  proc is     *)
(* what running openssl gave: whether the process could be started, and    *)
(* its standard output.                                                    *)

NewGetLdap ==
    [pc |-> "spawn", output |-> <<>>, certs |-> <<>>, cert_ders |-> <<>>,
     is_valid |-> FALSE, validation_message |-> "",
     raised |-> FALSE, exc |-> "",
     peer_certificate |-> <<>>, peer_certificate_chain |-> <<>>]

\* An exception leaves the function (except Exception: ... raise).
GRaise(f, text) == [f EXCEPT !.pc = "done", !.raised = TRUE, !.exc = text]

\* subprocess.Popen(cmd, ...); stdout, stderr = process.communicate(...)
RunOpenssl(f, p) ==
    IF ~p.ok
    THEN GRaise(f, "[Errno 2] No such file or directory: 'openssl'")
    ELSE [f EXCEPT !.output = p.stdout, !.pc = "parse"]

\* Mutant of ParseLine: a finished block is put at the front of certs.
ParseLinePrepends(st, line) ==
    IF line = BEGIN_CERT
    THEN [st EXCEPT !.in_cert = TRUE, !.current_cert = <<line>>]
    ELSE IF line = END_CERT
    THEN [st EXCEPT !.in_cert = FALSE,
                    !.current_cert = Append(@, line),
                    !.certs = <<join(Append(st.current_cert, line))>> \o @]
    ELSE IF st.in_cert
    THEN [st EXCEPT !.current_cert = Append(@, line)]
    ELSE st

\* The body of for line in output.splitlines(), on the loop's locals.
ParseLine(st, line) ==
    IF line = BEGIN_CERT
    THEN [st EXCEPT !.in_cert = TRUE, !.current_cert = <<line>>]
    ELSE IF line = END_CERT
    THEN [st EXCEPT !.in_cert = FALSE,
                    !.current_cert = Append(@, line),
                    !.certs = Append(@, join(Append(st.current_cert, line)))]
    ELSE IF st.in_cert
    THEN [st EXCEPT !.current_cert = Append(@, line)]
    ELSE st

RECURSIVE ParseLines(_, _)
ParseLines(st, lines) ==
    IF lines = <<>> THEN st
    ELSE ParseLines(ParseLine(st, Head(lines)), Tail(lines))

\* certs = []; current_cert = []; in_cert = False; the loop; if not certs: raise
ParseOutput(f) ==
    LET st == ParseLines([certs |-> <<>>, current_cert |-> <<>>, in_cert |-> FALSE],
                         splitlines(f.output))
    IN  IF st.certs = <<>>
        THEN GRaise(f, "No certificates found in the server response")
        ELSE [f EXCEPT !.certs = st.certs, !.pc = "convert"]

\* for cert_pem in certs: cert = load_pem(...); cert_ders.append(DER of cert)
RECURSIVE ConvertAll(_, _)
ConvertAll(pems, ders) ==
    IF pems = <<>> THEN [ok |-> TRUE, ders |-> ders, err |-> ""]
    ELSE LET r == load_pem_x509_certificate(Head(pems))
         IN  IF ~r.ok THEN [ok |-> FALSE, ders |-> ders, err |-> r.err]
             ELSE ConvertAll(Tail(pems), Append(ders, EncodeDER(r.cert)))

ConvertToDer(f) ==
    LET r == ConvertAll(f.certs, <<>>)
    IN  IF ~r.ok THEN GRaise(f, r.err)
        ELSE [f EXCEPT !.cert_ders = r.ders, !.pc = "validate"]

\* is_valid, validation_message = validate_certificate_chain(cert_ders)
ValidateChain(f) ==
    LET r == validate_certificate_chain(f.cert_ders)
    IN  [f EXCEPT !.is_valid = r.is_valid,
                  !.validation_message = r.message,
                  !.pc = "return"]

\* Mutant of ReturnCertificates: a chain reported invalid is refused.
ReturnOnlyValidChain(f) ==
    IF ~f.is_valid THEN GRaise(f, f.validation_message)
    ELSE [f EXCEPT !.pc = "done",
                   !.peer_certificate = f.cert_ders[1],
                   !.peer_certificate_chain =
                       IF Len(f.cert_ders) > 1 THEN Tail(f.cert_ders) ELSE <<>>]

\* return {'peer_certificate': cert_ders[0], 'peer_certificate_chain': ...}
ReturnCertificates(f) ==
    [f EXCEPT !.pc = "done",
              !.peer_certificate = f.cert_ders[1],
              !.peer_certificate_chain =
                  IF Len(f.cert_ders) > 1 THEN Tail(f.cert_ders) ELSE <<>>]

\* The step the activation takes from its current position.
GetLdapStep(f, p) ==
    CASE f.pc = "spawn"    -> RunOpenssl(f, p)
      [] f.pc = "parse"    -> ParseOutput(f)
      [] f.pc = "convert"  -> ConvertToDer(f)
      [] f.pc = "validate" -> ValidateChain(f)
      [] f.pc = "return"   -> ReturnCertificates(f)
      [] OTHER             -> f

RECURSIVE RunGetLdap(_, _)
RunGetLdap(f, p) ==
    IF f.pc = "done" THEN f ELSE RunGetLdap(GetLdapStep(f, p), p)

\* get_ldap_ssl_certificates(host, port, debug) as a whole, given what
\* running openssl gives: the activation when the call has ended.
get_ldap_ssl_certificates(p) == RunGetLdap(NewGetLdap, p)

-----------------------------------------------------------------------------
(* main, without --test: the call of get_ldap_ssl_certificates, the        *)
(* bundle, its output, and the handler of the try.                         *)

NewMain == [pc |-> "call", bundle |-> <<>>, exit_code |-> 0]

NoSink == [file |-> <<>>, stdout |-> <<>>]

\* print_colored(message, color)
print_colored(message, color) == <<color \o message \o "ENDC", NL>>

\* The bundle of main: format_certificate of the peer certificate, then each
\* chain certificate, formatted for pem and as it is for der.
RECURSIVE AppendChain(_, _, _)
AppendChain(bundle, chain, format) ==
    IF chain = <<>> THEN Returns(bundle)
    ELSE IF format = "pem"
    THEN LET r == format_certificate(Head(chain), format)
         IN  IF r.raised THEN r
             ELSE AppendChain(bundle \o r.value, Tail(chain), format)
    ELSE AppendChain(bundle \o Head(chain), Tail(chain), format)

BuildBundle(peer_certificate, peer_certificate_chain, format) ==
    LET first == format_certificate(peer_certificate, format)
    IN  IF first.raised THEN first
        ELSE AppendChain(first.value, peer_certificate_chain, format)

\* str(bytes), as print shows a bytes value.
RECURSIVE BytesEscapes(_)
BytesEscapes(bytes) ==
    IF bytes = <<>> THEN ""
    ELSE "\\x" \o ToString(Head(bytes)) \o BytesEscapes(Tail(bytes))

\* if args.output: write the bundle to the file, else print(bundle)
EmitBundle(sk, bundle, a) ==
    IF a.output
    THEN [sk EXCEPT !.file = bundle]
    ELSE IF a.format = "der"
    THEN [sk EXCEPT !.stdout = @ \o <<"b'" \o BytesEscapes(bundle) \o "'", NL>>]
    ELSE [sk EXCEPT !.stdout = @ \o bundle \o <<NL>>]

-----------------------------------------------------------------------------
VARIABLES
    call,    \* the activation of validate_certificate_chain
    fcall,   \* a call of format_certificate: its arguments and its outcome
    proc,    \* the openssl run, once made: started or not, and its output
    args,    \* the parsed command line: format and whether --output is given
    g,       \* the activation of get_ldap_ssl_certificates
    m,       \* the activation of main
    sink     \* what has been written: the output file and standard output

vars == <<call, fcall, proc, args, g, m, sink>>

\* The sequences over S of length at most n.
SeqsUpTo(S, n) == UNION {[1..k -> S] : k \in 0..n}

\* The values of the variables an activity does not use.
NoCall == [NewCall(<<>>) EXCEPT !.pc = "idle"]
NoFormatCall == [pc |-> "idle", cert_data |-> <<>>, format |-> "",
                 outcome |-> Returns(<<>>)]
NoProc == [ok |-> FALSE, stdout |-> <<>>]
NoArgs == [format |-> "pem", output |-> FALSE]
NoGetLdap == [NewGetLdap EXCEPT !.pc = "idle"]
NoMain == [NewMain EXCEPT !.pc = "idle"]

(* A call of validate_certificate_chain on any chain of byte strings. *)

Chains == SeqsUpTo(DerValues, MaxChainLen)

Init ==
    /\ \E chain \in Chains : call = NewCall(chain)
    /\ fcall = NoFormatCall /\ proc = NoProc /\ args = NoArgs
    /\ g = NoGetLdap /\ m = NoMain /\ sink = NoSink

VCheckEmpty ==
    /\ call.pc = "start" /\ call' = CheckEmpty(call)
    /\ UNCHANGED <<fcall, proc, args, g, m, sink>>
VLoadCert ==
    /\ call.pc = "load" /\ call' = LoadCert(call)
    /\ UNCHANGED <<fcall, proc, args, g, m, sink>>
VCheckSingle ==
    /\ call.pc = "single" /\ call' = CheckSingle(call)
    /\ UNCHANGED <<fcall, proc, args, g, m, sink>>
VComparePair ==
    /\ call.pc = "loop" /\ call' = ComparePair(call)
    /\ UNCHANGED <<fcall, proc, args, g, m, sink>>
VCheckLast ==
    /\ call.pc = "last" /\ call' = CheckLast(call)
    /\ UNCHANGED <<fcall, proc, args, g, m, sink>>

Next == VCheckEmpty \/ VLoadCert \/ VCheckSingle \/ VComparePair \/ VCheckLast

Spec == Init /\ [][Next]_vars

(* A call of format_certificate on any byte string and format. *)

Formats == {"pem", "der", "PEM", "txt", ""}

InitFormat ==
    /\ \E d \in DerValues, fmt \in Formats :
          fcall = [pc |-> "call", cert_data |-> d, format |-> fmt,
                   outcome |-> Returns(<<>>)]
    /\ call = NoCall /\ proc = NoProc /\ args = NoArgs
    /\ g = NoGetLdap /\ m = NoMain /\ sink = NoSink

FormatCertificate ==
    /\ fcall.pc = "call"
    /\ fcall' = [fcall EXCEPT
                   !.pc = "done",
                   !.outcome = format_certificate(fcall.cert_data, fcall.format)]
    /\ UNCHANGED <<call, proc, args, g, m, sink>>

NextFormat == FormatCertificate

SpecFormat == InitFormat /\ [][NextFormat]_vars

(* A run of main against any output of openssl. *)

ServerNames == 1..NumServerNames

ServerCertificates == [subject : ServerNames, issuer : ServerNames]

\* The pieces openssl's output is made of: a line of commentary, the PEM
\* block of a certificate, a block whose body is not base64, a block cut
\* short before its END line, and an END line on its own.
OutputPieces ==
    {EncodePEM(c) : c \in ServerCertificates}
      \cup {<<"---", NL>>,
            <<BEGIN_CERT, NL, "!!", NL, END_CERT, NL>>,
            <<BEGIN_CERT, NL, "wB", NL>>,
            <<END_CERT, NL>>}

RECURSIVE Flatten(_)
Flatten(pieces) ==
    IF pieces = <<>> THEN <<>> ELSE Head(pieces) \o Flatten(Tail(pieces))

Outputs == {Flatten(ps) : ps \in SeqsUpTo(OutputPieces, MaxPieces)}

\* What running openssl can give: it cannot be started, or it prints an output.
ProcResults == {NoProc} \cup {[ok |-> TRUE, stdout |-> o] : o \in Outputs}

InitMain ==
    /\ args \in [format : {"pem", "der"}, output : BOOLEAN]
    /\ proc = NoProc
    /\ g = NoGetLdap /\ m = NewMain /\ sink = NoSink
    /\ call = NoCall /\ fcall = NoFormatCall

\* certificates = get_ldap_ssl_certificates(args.server, args.port, args.debug):
\* the call runs openssl, which gives one of ProcResults.
MainCall ==
    /\ m.pc = "call"
    /\ \E p \in ProcResults :
          /\ proc' = p
          /\ g' = get_ldap_ssl_certificates(p)
    /\ m' = [m EXCEPT !.pc = "wait"]
    /\ UNCHANGED <<call, fcall, args, sink>>

\* The try body of main after the call: build the bundle and put it out;
\* an exception in it reaches the handler of the try (print the error,
\* sys.exit(1)).
MainBundle ==
    /\ m.pc = "wait" /\ g.pc = "done" /\ ~g.raised
    /\ LET b == BuildBundle(g.peer_certificate, g.peer_certificate_chain,
                            args.format)
       IN  IF b.raised
           THEN /\ m' = [m EXCEPT !.pc = "exit", !.exit_code = 1]
                /\ sink' = [sink EXCEPT
                      !.stdout = @ \o print_colored("Error: " \o b.exc, "RED")]
           ELSE /\ m' = [m EXCEPT !.pc = "exit", !.bundle = b.value]
                /\ sink' = EmitBundle(sink, b.value, args)
    /\ UNCHANGED <<call, fcall, proc, args, g>>

\* get_ldap_ssl_certificates raised: except Exception as e:
\* print_colored(f"Error: {str(e)}", RED); sys.exit(1)
MainExcept ==
    /\ m.pc = "wait" /\ g.pc = "done" /\ g.raised
    /\ m' = [m EXCEPT !.pc = "exit", !.exit_code = 1]
    /\ sink' = [sink EXCEPT
                  !.stdout = @ \o print_colored("Error: " \o g.exc, "RED")]
    /\ UNCHANGED <<call, fcall, proc, args, g>>

NextMain == MainCall \/ MainBundle \/ MainExcept

SpecMain == InitMain /\ [][NextMain]_vars

-----------------------------------------------------------------------------
(* Properties of validate_certificate_chain.  The certificates of the      *)
(* argument are read off the argument itself, not off the locals the       *)
(* activation builds.                                                      *)

Returned == call.pc = "done"

ChainLen == Len(call.cert_ders)

Parses(k) == load_der_x509_certificate(call.cert_ders[k]).ok

AllParse == \A k \in 1..ChainLen : Parses(k)

\* The certificate at 0-based position p of the argument.
CertAt(p) == load_der_x509_certificate(call.cert_ders[p + 1]).cert

\* The adjacent pair (cert[p], cert[p+1]) does not link.
Mismatch(p) == CertAt(p).issuer # CertAt(p + 1).subject

PairPositions == 0..(ChainLen - 2)

\* p is the smallest position whose pair does not link.
FirstMismatch(p) ==
    /\ p \in PairPositions
    /\ Mismatch(p)
    /\ \A q \in 0..(p - 1) : ~Mismatch(q)

BrokenMessage(p) ==
    "Certificate chain broken at position " \o ToString(p)
      \o ": issuer does not match next certificate's subject"

SelfSignedAtMessage(p) ==
    "Chain contains self-signed certificate at position " \o ToString(p)

\* C1: whenever the validator returns is_valid = True, every adjacent pair
\* whose first certificate is not self-signed links (issuer = next subject),
\* for all pairs of the chain, also those after the position it stopped at.
C1_ValidChainLinksEverywhere ==
    (Returned /\ call.result.is_valid) =>
        \A p \in PairPositions :
            ~is_self_signed(CertAt(p)) => ~Mismatch(p)

\* C2: a non-empty argument with an element that fails to parse, at whatever
\* index, yields (False, "Error validating certificate chain: " + text of the
\* first failure) and no other verdict.
C2_ParseFailureIsReported ==
    (Returned /\ ChainLen > 0 /\ ~AllParse) =>
        \E k \in 1..ChainLen :
            /\ ~Parses(k)
            /\ \A j \in 1..(k - 1) : Parses(j)
            /\ call.result =
                 [is_valid |-> FALSE,
                  message |-> "Error validating certificate chain: "
                       \o load_der_x509_certificate(call.cert_ders[k]).err]

\* The failing element lies after a pair at which the pairwise check would
\* have stopped.
C2_Witness ==
    /\ Returned /\ ChainLen = 3
    /\ Parses(1) /\ Parses(2) /\ ~Parses(3)
    /\ load_der_x509_certificate(call.cert_ders[1]).cert.issuer
         # load_der_x509_certificate(call.cert_ders[2]).cert.subject
    /\ ~call.result.is_valid

\* C3: in a chain of two or more parseable certificates whose first
\* non-linking pair is at position p with cert[p] not self-signed, the result
\* is (False, "Certificate chain broken at position p: ...").
C3_BrokenAtFirstMismatch ==
    (Returned /\ ChainLen >= 2 /\ AllParse) =>
        \A p \in PairPositions :
            (FirstMismatch(p) /\ ~is_self_signed(CertAt(p))) =>
                call.result = [is_valid |-> FALSE, message |-> BrokenMessage(p)]

\* A break at position 1, behind a linking pair.
C3_Witness ==
    /\ Returned /\ ChainLen = 3 /\ AllParse
    /\ FirstMismatch(1) /\ ~is_self_signed(CertAt(1))
    /\ call.result.message = BrokenMessage(1)

\* C4: in a chain of two or more parseable certificates whose first
\* non-linking pair is at position p with cert[p] self-signed, the result is
\* (True, "Chain contains self-signed certificate at position p") and no pair
\* after p has been compared.
C4_SelfSignedEscape ==
    (Returned /\ ChainLen >= 2 /\ AllParse) =>
        \A p \in PairPositions :
            (FirstMismatch(p) /\ is_self_signed(CertAt(p))) =>
                /\ call.result =
                     [is_valid |-> TRUE, message |-> SelfSignedAtMessage(p)]
                /\ Len(call.compared) = p + 1
                /\ \A n \in 1..(p + 1) : call.compared[n] = n - 1

\* The escape at position 0 of a chain that has a later pair.
C4_Witness ==
    /\ Returned /\ ChainLen = 3 /\ AllParse
    /\ FirstMismatch(0) /\ is_self_signed(CertAt(0))
    /\ call.result.is_valid

\* C5: a chain of two or more parseable certificates in which every adjacent
\* pair links is valid, with the "ends with self-signed root CA" message when
\* the last certificate is self-signed and "properly ordered" otherwise.
C5_LinkedChainIsValid ==
    (Returned /\ ChainLen >= 2 /\ AllParse
        /\ \A p \in PairPositions : ~Mismatch(p)) =>
        call.result =
          [is_valid |-> TRUE,
           message |->
             IF is_self_signed(CertAt(ChainLen - 1))
             THEN "Certificate chain is valid and ends with self-signed root CA"
             ELSE "Certificate chain is valid and properly ordered"]

\* leaf -> intermediate -> self-signed root.
C5_Witness ==
    /\ Returned /\ ChainLen = 3 /\ AllParse
    /\ \A p \in PairPositions : ~Mismatch(p)
    /\ ~is_self_signed(CertAt(0)) /\ ~is_self_signed(CertAt(1))
    /\ is_self_signed(CertAt(2))

\* C6: a chain of exactly one parseable certificate is valid, with the
\* message "Valid self-signed certificate" when it is self-signed and
\* "Certificate chain is valid and properly ordered" when it is not.
C6_SingleCertificate ==
    (Returned /\ ChainLen = 1 /\ AllParse) =>
        call.result =
          [is_valid |-> TRUE,
           message |->
             IF is_self_signed(CertAt(0))
             THEN "Valid self-signed certificate"
             ELSE "Certificate chain is valid and properly ordered"]

\* A lone certificate that is not self-signed.
C6_Witness ==
    /\ Returned /\ ChainLen = 1 /\ AllParse
    /\ ~is_self_signed(CertAt(0))
    /\ call.result.is_valid

\* C7: the empty chain yields (False, "No certificates found in chain"), no
\* other argument yields that message, and no certificate is parsed before
\* the rule is decided (parsing starts only on a non-empty argument).
C7_EmptyChain ==
    /\ (Returned /\ ChainLen = 0) =>
          /\ call.result =
               [is_valid |-> FALSE, message |-> "No certificates found in chain"]
          /\ call.certs = <<>>
    /\ (Returned /\ call.result.message = "No certificates found in chain") =>
          ChainLen = 0
    /\ call.pc \notin {"start", "done"} => ChainLen > 0

C7_Witness ==
    /\ Returned /\ ChainLen = 0
    /\ call.result.message = "No certificates found in chain"

-----------------------------------------------------------------------------
(* Properties of format_certificate. *)

\* C8: whenever the requested format is neither 'pem' nor 'der',
\* format_certificate raises ValueError "Unsupported format: <format>", for
\* every cert_data, parseable or not.
C8_UnsupportedFormatAlwaysReported ==
    (fcall.pc = "done" /\ fcall.format \notin {"pem", "der"}) =>
        /\ fcall.outcome.raised
        /\ fcall.outcome.exc = "Unsupported format: " \o fcall.format

-----------------------------------------------------------------------------
(* Properties of the retrieval path.  The certificate blocks of openssl's  *)
(* output are read off the output itself: a block runs from a BEGIN line   *)
(* to the next END line.                                                   *)

OutputLines == splitlines(proc.stdout)

EndPositions(L) == {e \in 1..Len(L) : L[e] = END_CERT}

\* The BEGIN line that opens the block ending at line e of L (0 if none).
OpenerOf(L, e) ==
    LET begins == {b \in 1..(e - 1) : L[b] = BEGIN_CERT}
    IN  IF begins = {} THEN 0
        ELSE CHOOSE b \in begins : \A c \in begins : c <= b

\* Every END line closes a block: a BEGIN line precedes it, with no other
\* END line in between.
WellFormed(L) ==
    LET ends == EndPositions(L)
    IN  \A e \in ends :
            LET b == OpenerOf(L, e)
            IN  b # 0 /\ \A x \in ends : ~(b < x /\ x < e)

\* The certificate of the block ending at line e, or the failure to read it.
BlockCert(L, e) ==
    LET body == DecodeBody(SubSeq(L, OpenerOf(L, e) + 1, e - 1))
    IN  IF ~body.ok THEN [ok |-> FALSE, err |-> "not base64"]
        ELSE load_der_x509_certificate(body.bytes)

\* The blocks of L in the order of L: what reading each of them gives.
Blocks(L) ==
    LET ends == EndPositions(L)
    IN  [k \in 1..Cardinality(ends) |->
            BlockCert(L, CHOOSE e \in ends :
                            Cardinality({x \in ends : x < e}) = k - 1)]

AllOk(B) == \A k \in 1..Len(B) : B[k].ok

Ders(B) == [k \in 1..Len(B) |-> EncodeDER(B[k].cert)]

Pems(B) == [k \in 1..Len(B) |-> EncodePEM(B[k].cert)]

\* C9: when the output holds at least one certificate block and each block
\* parses, get_ldap_ssl_certificates returns the first block's certificate as
\* peer_certificate and the others as peer_certificate_chain, whatever the
\* verdict of validate_certificate_chain, and main exits with status 0; the
\* call never raises once the blocks found are converted, and over parseable
\* blocks it raises only with "No certificates found in the server response".
C9_ValidationIsAdvisory ==
    /\ (g.pc = "done" /\ m.pc = "wait") =>
          LET L == OutputLines
              B == Blocks(L)
              wellFormed == WellFormed(L)
          IN  /\ (proc.ok /\ wellFormed /\ Len(B) >= 1 /\ AllOk(B)) =>
                    /\ ~g.raised
                    /\ g.peer_certificate = Ders(B)[1]
                    /\ g.peer_certificate_chain = Tail(Ders(B))
              /\ g.cert_ders # <<>> => ~g.raised
              /\ (g.raised /\ proc.ok /\ wellFormed /\ AllOk(B)) =>
                    /\ Len(B) = 0
                    /\ g.exc = "No certificates found in the server response"
    /\ (m.pc = "exit" /\ ~g.raised) => m.exit_code = 0

\* A chain reported invalid is returned all the same, and main has exited
\* with status 0.
C9_Witness ==
    /\ m.pc = "exit" /\ m.exit_code = 0
    /\ ~g.raised /\ ~g.is_valid
    /\ LET L == OutputLines
           B == Blocks(L)
       IN  /\ WellFormed(L) /\ Len(B) = 2 /\ AllOk(B)
           /\ g.peer_certificate = Ders(B)[1]
           /\ g.peer_certificate_chain = <<Ders(B)[2]>>

=============================================================================
